---------------------------- MODULE Spec2Model ----------------------------
(***************************************************************************)
(* A model of src/src/utils/yarnParser.ts: the lockfile Scanner (the       *)
(* generator tokenise) and the Tree Builder (class Parser, function parse).*)
(* A text is a sequence of one-character strings.  The generator is a      *)
(* record that holds its closure variables and the place it is suspended   *)
(* at; one pull of the generator is the operator Pull.  The recursive      *)
(* method Parser.parse is a stack of frames; every action of the parser    *)
(* runs the code between two calls of this.next().                         *)
(***************************************************************************)
EXTENDS Integers, Sequences, FiniteSets, TLC

VARIABLES
    input,      \* the text handed to parse(str), BOM already stripped
    doc,        \* how the text was written: its lines, or <<>> for a raw text
    sc,         \* the generator tokenise(input): closure variables and suspension point
    token,      \* Parser.token, the current token
    stack,      \* the active calls of Parser.parse, innermost last
    heap,       \* the objects allocated by `const obj = {}`, by address
    retval,     \* the address a finished parse(indent) call returns to its caller
    status,     \* running, or how parse(str) ended
    spin        \* iterations of a scanner loop past the end of the text, modulo SpinWindow

vars == <<input, doc, sc, token, stack, heap, retval, status, spin>>

(***************************************************************************)
(* Bounds of the model.                                                    *)
(***************************************************************************)
MaxRawLen == 4
MaxTreeLines == 3
MaxMixedLines == 2
MaxQuoteBody == 5
MaxBoolPieces == 3
SpinWindow == 2

(***************************************************************************)
(* Characters.                                                             *)
(***************************************************************************)
NL == "\n"
QUOTE == "\""
BSL == "\\"
SPACE == " "
UNDEF == "undefined"

Digits == {"0", "1", "2", "3", "4", "5", "6", "7", "8", "9"}

LowerCase == {"a", "b", "c", "d", "e", "f", "g", "h", "i", "j", "k", "l", "m",
              "n", "o", "p", "q", "r", "s", "t", "u", "v", "w", "x", "y", "z"}

UpperCase == {"A", "B", "C", "D", "E", "F", "G", "H", "I", "J", "K", "L", "M",
              "N", "O", "P", "Q", "R", "S", "T", "U", "V", "W", "X", "Y", "Z"}

\* /^[a-zA-Z\/-]/
WordStart == LowerCase \cup UpperCase \cup {"/", "-"}

\* the characters that end a bare word
WordBreak == {":", SPACE, NL, ","}

\* String.prototype.trim: the white space of the modelled alphabet
WhiteSpace == {SPACE, NL, "\t", "\r"}

DigitValue(c) ==
    CASE c = "0" -> 0 [] c = "1" -> 1 [] c = "2" -> 2 [] c = "3" -> 3
      [] c = "4" -> 4 [] c = "5" -> 5 [] c = "6" -> 6 [] c = "7" -> 7
      [] c = "8" -> 8 [] c = "9" -> 9

(***************************************************************************)
(* Strings as the code indexes them.                                       *)
(***************************************************************************)
\* input[i], 0-based; undefined outside the text
At(s, i) == IF i >= 0 /\ i < Len(s) THEN s[i + 1] ELSE UNDEF

\* input.slice(n)
Slice(s, n) == SubSeq(s, n + 1, Len(s))

\* the first n characters
Take(s, n) == SubSeq(s, 1, n)

\* a prefix test that also asks for the end of a word after the prefix
StartsWithWord(s, p) ==
    /\ Len(s) >= Len(p)
    /\ SubSeq(s, 1, Len(p)) = p
    /\ (Len(s) = Len(p) \/ s[Len(p) + 1] \in {":", " ", "\n", ","})

\* /^true/.test(input), /^false/.test(input)
StartsWith(s, p) == Len(s) >= Len(p) /\ Take(s, Len(p)) = p

\* the length of the maximal run of characters of set S at the start of s
RECURSIVE RunLength(_, _)
RunLength(s, S) ==
    IF s # <<>> /\ Head(s) \in S THEN 1 + RunLength(Tail(s), S) ELSE 0

\* +val for a run of digits
RECURSIVE ToNumber(_)
ToNumber(s) ==
    IF s = <<>> THEN 0 ELSE 10 * ToNumber(Take(s, Len(s) - 1)) + DigitValue(s[Len(s)])

(***************************************************************************)
(* TOKEN_TYPES and tokens.                                                 *)
(***************************************************************************)
T_boolean == "BOOLEAN"
T_string == "STRING"
T_eof == "EOF"
T_colon == "COLON"
T_newline == "NEWLINE"
T_comment == "COMMENT"
T_indent == "INDENT"
T_invalid == "INVALID"
T_number == "NUMBER"
T_comma == "COMMA"

\* a token value is a boolean, a number, a string or undefined
VUndef == [t |-> "undef", b |-> FALSE, n |-> 0, s |-> <<>>, a |-> 0]
VBool(b) == [VUndef EXCEPT !.t = "bool", !.b = b]
VNum(n) == [VUndef EXCEPT !.t = "num", !.n = n]
VStr(s) == [VUndef EXCEPT !.t = "str", !.s = s]
\* a reference to the object at address a of the heap
VRef(a) == [VUndef EXCEPT !.t = "ref", !.a = a]

NoToken == [type |-> "NONE", value |-> VUndef, line |-> 0, col |-> 0]

\* buildToken(type, value): the position is the closure's line and col
buildToken(g, type, value) ==
    [type |-> type, value |-> value, line |-> g.line, col |-> g.col]

(***************************************************************************)
(* JSON.parse of a quoted literal.                                         *)
(***************************************************************************)
JsonFail == [ok |-> FALSE, s |-> <<>>]

\* the character a two-character escape stands for
Unescape(e) ==
    CASE e = "n" -> NL [] e = "t" -> "\t" [] e = "r" -> "\r"
      [] e = "b" -> "<BS>" [] e = "f" -> "\f"
      [] OTHER -> e

HexDigits == Digits \cup {"a", "b", "c", "d", "e", "f", "A", "B", "C", "D", "E", "F"}

\* val[i..] of a literal whose opening quote is val[1]; acc is what is decoded
RECURSIVE JsonBody(_, _, _)
JsonBody(val, i, acc) ==
    IF i > Len(val) THEN JsonFail
    ELSE LET c == val[i] IN
         IF c = QUOTE THEN (IF i = Len(val) THEN [ok |-> TRUE, s |-> acc] ELSE JsonFail)
         ELSE IF c = BSL THEN
             IF i + 1 > Len(val) THEN JsonFail
             ELSE IF val[i + 1] \in {QUOTE, BSL, "/", "b", "f", "n", "r", "t"}
                  THEN JsonBody(val, i + 2, Append(acc, Unescape(val[i + 1])))
                  ELSE IF val[i + 1] = "u" /\ i + 5 <= Len(val)
                          /\ \A k \in 2..5 : val[i + k] \in HexDigits
                  THEN JsonBody(val, i + 6, Append(acc,
                           "U+" \o val[i + 2] \o val[i + 3] \o val[i + 4] \o val[i + 5]))
                  ELSE JsonFail
         ELSE IF c \in {NL, "\t", "\r", "\f"} THEN JsonFail
         ELSE JsonBody(val, i + 1, Append(acc, c))

JsonParse(val) ==
    IF Len(val) >= 2 /\ val[1] = QUOTE THEN JsonBody(val, 2, <<>>) ELSE JsonFail

(***************************************************************************)
(* The generator tokenise(input).                                          *)
(*   pc = "head"   at the test of while (input.length), also before the    *)
(*                 first pull                                              *)
(*   pc = "yield"  suspended at the yield of a branch, chop as the branch  *)
(*                 leaves it                                               *)
(*   pc = "guard"  suspended at the yield of if (!chop)                    *)
(*   pc = "eof"    suspended at the yield of the eof token                 *)
(*   pc = "closed" returned or thrown                                      *)
(*   pc = "loop"   inside a loop of a branch whose index is past the text  *)
(***************************************************************************)
NewScanner(text) ==
    [rest |-> text, lastNewline |-> FALSE, line |-> 1, col |-> 0,
     chop |-> 0, pc |-> "head"]

Emit(g, type, value, chop) ==
    [kind |-> "token",
     tok |-> buildToken(g, type, value),
     sc |-> [g EXCEPT !.chop = chop, !.pc = "yield"]]

Thrown(g, error) ==
    [kind |-> error, tok |-> NoToken, sc |-> [g EXCEPT !.pc = "closed"]]

Looping(g) ==
    [kind |-> "loop", tok |-> NoToken, sc |-> [g EXCEPT !.pc = "loop"]]

\* col += chop; lastNewline = input[0] === "\n"; input = input.slice(chop);
LoopTail(g) ==
    [g EXCEPT !.col = g.col + g.chop,
              !.lastNewline = (At(g.rest, 0) = NL),
              !.rest = Slice(g.rest, g.chop),
              !.chop = 0,
              !.pc = "head"]

\* the index of the first "\n" at or after index `from`, or -1: where
\* while (input[chop] !== "\n") stops
RECURSIVE NewlineIndex(_, _)
NewlineIndex(s, from) ==
    IF from >= Len(s) THEN -1
    ELSE IF At(s, from) = NL THEN from
    ELSE NewlineIndex(s, from + 1)

\* const isEscaped = input[i - 1] === "\\" && input[i - 2] !== "\\";
isEscaped(s, i) == At(s, i - 1) = BSL /\ At(s, i - 2) # BSL

\* the index i > 0 at which the loop of the quoted-string branch breaks, or -1
RECURSIVE ClosingQuote(_, _)
ClosingQuote(s, i) ==
    IF i >= Len(s) THEN -1
    ELSE IF i > 0 /\ At(s, i) = QUOTE /\ ~isEscaped(s, i) THEN i
    ELSE ClosingQuote(s, i + 1)

\* the bare-word branch: the characters before the first of : space \n ,
RECURSIVE WordLength(_)
WordLength(s) ==
    IF s = <<>> \/ Head(s) \in WordBreak THEN 0 ELSE 1 + WordLength(Tail(s))

\* the comment branch
CommentBranch(g) ==
    LET stop == NewlineIndex(g.rest, 1) IN
    IF stop < 0 THEN Looping(g)
    ELSE Emit(g, T_comment, VStr(SubSeq(g.rest, 2, stop)), stop)

\* a space branch that takes the first 2 spaces for the whole indentation
IndentBranchOneUnit(g) == Emit(g, T_indent, VNum(1), 2)

\* the space branch after a newline
IndentBranch(g) ==
    LET indent == RunLength(g.rest, {SPACE}) IN
    IF indent % 2 # 0 THEN Thrown(g, "InvalidIndentation")
    ELSE Emit(g, T_indent, VNum(indent \div 2), indent)

\* the quoted-string branch
QuoteBranch(g) ==
    LET close == ClosingQuote(g.rest, 0) IN
    IF close < 0 THEN Looping(g)
    ELSE LET val == Take(g.rest, close + 1)
             json == JsonParse(val)
         IN IF json.ok THEN Emit(g, T_string, VStr(json.s), Len(val))
            ELSE Emit(g, T_invalid, VUndef, Len(val))

\* the number branch
NumberBranch(g) ==
    LET n == RunLength(g.rest, Digits) IN
    Emit(g, T_number, VNum(ToNumber(Take(g.rest, n))), n)

\* the bare-word branch
WordBranch(g) ==
    LET n == WordLength(g.rest) IN
    Emit(g, T_string, VStr(Take(g.rest, n)), n)

\* the generator from the test of the while loop to its next yield
RECURSIVE Scan(_)
Scan(g) ==
    IF g.rest = <<>> THEN
        [kind |-> "token", tok |-> buildToken(g, T_eof, VUndef),
         sc |-> [g EXCEPT !.pc = "eof"]]
    ELSE LET c == g.rest[1] IN
        IF c = NL THEN
            Emit([g EXCEPT !.line = g.line + 1, !.col = 0], T_newline, VUndef, 1)
        ELSE IF c = "#" THEN CommentBranch(g)
        ELSE IF c = SPACE THEN
            IF g.lastNewline THEN IndentBranch(g)
            ELSE Scan(LoopTail([g EXCEPT !.chop = 1]))
        ELSE IF c = QUOTE THEN QuoteBranch(g)
        ELSE IF c \in Digits THEN NumberBranch(g)
        ELSE IF StartsWith(g.rest, <<"t", "r", "u", "e">>) THEN
            Emit(g, T_boolean, VBool(TRUE), 4)
        ELSE IF StartsWith(g.rest, <<"f", "a", "l", "s", "e">>) THEN
            Emit(g, T_boolean, VBool(FALSE), 5)
        ELSE IF c = ":" THEN Emit(g, T_colon, VUndef, 1)
        ELSE IF c = "," THEN Emit(g, T_comma, VUndef, 1)
        ELSE IF c \in WordStart THEN WordBranch(g)
        ELSE Emit(g, T_invalid, VUndef, 0)

\* if (!chop) yield buildToken(TOKEN_TYPES.invalid);
ZeroChopGuard(g) ==
    [kind |-> "token", tok |-> buildToken(g, T_invalid, VUndef),
     sc |-> [g EXCEPT !.pc = "guard"]]

\* this.tokens.next(): resume the generator until it yields, returns or throws
Pull(g) ==
    CASE g.pc = "head" -> Scan(g)
      [] g.pc = "yield" -> IF g.chop = 0 THEN ZeroChopGuard(g) ELSE Scan(LoopTail(g))
      [] g.pc = "guard" -> Scan(LoopTail(g))
      [] g.pc = "eof" -> [kind |-> "done", tok |-> NoToken, sc |-> [g EXCEPT !.pc = "closed"]]
      [] g.pc = "closed" -> [kind |-> "done", tok |-> NoToken, sc |-> g]
      [] g.pc = "loop" -> Looping(g)

(***************************************************************************)
(* class Parser.                                                           *)
(***************************************************************************)
LOCKFILE_VERSION == 1

\* String.prototype.trim
RECURSIVE TrimLeft(_)
TrimLeft(s) ==
    IF s # <<>> /\ Head(s) \in WhiteSpace THEN TrimLeft(Tail(s)) ELSE s

RECURSIVE TrimRight(_)
TrimRight(s) ==
    IF s # <<>> /\ s[Len(s)] \in WhiteSpace THEN TrimRight(Take(s, Len(s) - 1)) ELSE s

Trim(s) == TrimLeft(TrimRight(s))

VersionPrefix ==
    <<"y", "a", "r", "n", " ", "l", "o", "c", "k", "f", "i", "l", "e", " ", "v">>

\* comment.match(VERSION_REGEX): /^yarn lockfile v(\d+)$/, the digits or <<>>
VersionMatch(comment) ==
    LET digits == Slice(comment, Len(VersionPrefix)) IN
    IF StartsWith(comment, VersionPrefix) /\ digits # <<>>
       /\ RunLength(digits, Digits) = Len(digits)
    THEN digits ELSE <<>>

\* onComment(token) throws for a version above LOCKFILE_VERSION
onCommentThrows(value) ==
    LET versionMatch == VersionMatch(Trim(value.s)) IN
    versionMatch # <<>> /\ ToNumber(versionMatch) > LOCKFILE_VERSION

\* next(): pull until a token that is no comment; the outcome is a token,
\* an error, or a scanner that loops
RECURSIVE next(_)
nextOf(item) ==
    IF item.kind = "done" THEN [item EXCEPT !.kind = "NoMoreTokens"]
    ELSE IF item.kind = "token" /\ item.tok.type = T_comment THEN
        IF onCommentThrows(item.tok.value)
        THEN [item EXCEPT !.kind = "UnsupportedLockfileVersion", !.tok = NoToken]
        ELSE next(item.sc)
    ELSE item

next(g) == CHOOSE r \in {nextOf(item) : item \in {Pull(g)}} : TRUE

\* a test that also takes the eof token for a plain value
isValuePropTokenOrEof(tok) == tok.type \in {T_boolean, T_string, T_number, T_eof}

\* isValidPropValueToken(token)
isValidPropValueToken(tok) == tok.type \in {T_boolean, T_string, T_number}

\* const obj = {}
EmptyObj == [k \in {} |-> VUndef]

\* an assignment that only reaches the first key of the list
AssignFirstKey(obj, keys, val) ==
    [k \in DOMAIN obj \cup {keys[1]} |-> IF k = keys[1] THEN val ELSE obj[k]]

\* for (const key of keys) obj[key] = val
AssignKeys(obj, keys, val) ==
    LET ks == {keys[i] : i \in 1..Len(keys)} IN
    [k \in DOMAIN obj \cup ks |-> IF k \in ks THEN val ELSE obj[k]]

\* a call of parse(indent): its arguments, locals and the place it is at
NewFrame(indent, obj) ==
    [indent |-> indent, obj |-> obj, keys |-> <<>>, pc |-> "loop"]

Top == stack[Len(stack)]

SetTop(frame) == [stack EXCEPT ![Len(stack)] = frame]

Running == status = "running" /\ stack # <<>> /\ sc.pc # "loop"

\* this.next() at the end of a step: the token is stored and the frame moves
\* to `then(tok)`, or parse(str) fails with what next() throws
CallNext(then(_)) ==
    \E item \in {next(sc)} :
    /\ sc' = item.sc
    /\ IF item.kind = "token"
       THEN /\ token' = item.tok
            /\ stack' = then(item.tok)
            /\ status' = status
       ELSE /\ token' = token
            /\ stack' = stack
            /\ status' = IF item.kind = "loop" THEN status ELSE item.kind

\* this.unexpected(msg), and a failed invariant(...)
Fail(error) ==
    /\ status' = error
    /\ UNCHANGED <<input, doc, sc, token, stack, heap, retval, spin>>

\* parse(str): parser.next(); return parser.parse();
Start ==
    /\ status = "ready"
    /\ \E item \in {next(sc)} :
       /\ sc' = item.sc
       /\ IF item.kind = "token"
          THEN /\ token' = item.tok
               /\ heap' = Append(heap, EmptyObj)
               /\ stack' = <<NewFrame(0, Len(heap) + 1)>>
               /\ status' = "running"
          ELSE /\ token' = token
               /\ heap' = heap
               /\ stack' = stack
               /\ status' = IF item.kind = "loop" THEN "running" ELSE item.kind
    /\ UNCHANGED <<input, doc, retval, spin>>

\* the newline branch up to the second this.next()
AfterNewline(frame, nextToken) ==
    IF frame.indent = 0 THEN frame
    ELSE IF nextToken.type # T_indent THEN [frame EXCEPT !.pc = "break"]
    ELSE IF nextToken.value = VNum(frame.indent) THEN [frame EXCEPT !.pc = "nlIndent"]
    ELSE [frame EXCEPT !.pc = "break"]

LoopNewline ==
    /\ Running /\ Top.pc = "loop" /\ token.type = T_newline
    /\ CallNext(LAMBDA nextToken : SetTop(AfterNewline(Top, nextToken)))
    /\ UNCHANGED <<input, doc, heap, retval, spin>>

\* the newline branch: the indent is on our level, this.next()
NlIndent ==
    /\ Running /\ Top.pc = "nlIndent"
    /\ CallNext(LAMBDA tok : SetTop([Top EXCEPT !.pc = "loop"]))
    /\ UNCHANGED <<input, doc, heap, retval, spin>>

\* an indent branch that takes every Indent token for its own level
indentAlwaysMatches(tok, indent) == TRUE

\* propToken.value === indent
indentMatches(tok, indent) == tok.value = VNum(indent)

\* the indent branch
LoopIndent ==
    /\ Running /\ Top.pc = "loop" /\ token.type = T_indent
    /\ IF indentMatches(token, Top.indent)
       THEN CallNext(LAMBDA tok : stack)
       ELSE /\ stack' = SetTop([Top EXCEPT !.pc = "break"])
            /\ UNCHANGED <<sc, token, status>>
    /\ UNCHANGED <<input, doc, heap, retval, spin>>

\* the eof branch
LoopEof ==
    /\ Running /\ Top.pc = "loop" /\ token.type = T_eof
    /\ stack' = SetTop([Top EXCEPT !.pc = "break"])
    /\ UNCHANGED <<input, doc, sc, token, heap, retval, status, spin>>

\* the string branch up to the while loop over the commas
LoopString ==
    /\ Running /\ Top.pc = "loop" /\ token.type = T_string
    /\ IF token.value.s = <<>>
       THEN Fail("InvariantViolation")
       ELSE /\ CallNext(LAMBDA tok :
                   SetTop([Top EXCEPT !.keys = <<token.value.s>>, !.pc = "keys"]))
            /\ UNCHANGED <<input, doc, heap, retval, spin>>

\* a last branch of the loop that skips the token it does not know
LoopOtherSkips ==
    /\ Running /\ Top.pc = "loop"
    /\ token.type \notin {T_newline, T_indent, T_eof, T_string}
    /\ CallNext(LAMBDA tok : stack)
    /\ UNCHANGED <<input, doc, heap, retval, spin>>

\* the last branch of the loop: this.unexpected("Unknown token")
LoopOther ==
    /\ Running /\ Top.pc = "loop"
    /\ token.type \notin {T_newline, T_indent, T_eof, T_string}
    /\ Fail("UnexpectedToken")

\* while (this.token.type === TOKEN_TYPES.comma): skip the comma
KeysComma ==
    /\ Running /\ Top.pc = "keys" /\ token.type = T_comma
    /\ CallNext(LAMBDA tok : SetTop([Top EXCEPT !.pc = "aliasKey"]))
    /\ UNCHANGED <<input, doc, heap, retval, spin>>

\* the body of the while loop after the comma
AliasKey ==
    /\ Running /\ Top.pc = "aliasKey"
    /\ IF token.type # T_string THEN Fail("UnexpectedToken")
       ELSE IF token.value.s = <<>> THEN Fail("InvariantViolation")
       ELSE /\ CallNext(LAMBDA tok :
                   SetTop([Top EXCEPT !.keys = Append(@, token.value.s), !.pc = "keys"]))
            /\ UNCHANGED <<input, doc, heap, retval, spin>>

\* valToken is a colon: this.next(); this.parse(indent + 1)
ValColon ==
    /\ Running /\ Top.pc = "keys" /\ token.type = T_colon
    /\ CallNext(LAMBDA tok :
           Append(SetTop([Top EXCEPT !.pc = "call"]),
                  NewFrame(Top.indent + 1, Len(heap) + 1)))
    /\ heap' = IF status' = "running" /\ sc'.pc # "loop" THEN Append(heap, EmptyObj) ELSE heap
    /\ UNCHANGED <<input, doc, retval, spin>>

\* valToken is a plain value: assign it to every key, this.next()
ValLeaf ==
    /\ Running /\ Top.pc = "keys" /\ isValidPropValueToken(token)
    /\ heap' = [heap EXCEPT ![Top.obj] = AssignKeys(@, Top.keys, token.value)]
    /\ CallNext(LAMBDA tok : SetTop([Top EXCEPT !.pc = "loop"]))
    /\ UNCHANGED <<input, doc, retval, spin>>

\* this.unexpected("Invalid value type")
ValInvalid ==
    /\ Running /\ Top.pc = "keys"
    /\ token.type \notin {T_comma, T_colon}
    /\ ~isValidPropValueToken(token)
    /\ Fail("UnexpectedToken")

\* return obj
Return ==
    /\ Running /\ Top.pc = "break"
    /\ retval' = Top.obj
    /\ IF Len(stack) = 1
       THEN /\ stack' = <<>>
            /\ status' = "returned"
       ELSE /\ stack' = [SubSeq(stack, 1, Len(stack) - 1)
                            EXCEPT ![Len(stack) - 1].pc = "assign"]
            /\ status' = status
    /\ UNCHANGED <<input, doc, sc, token, heap, spin>>

\* a parse(indent) that goes on reading keys after every nested block
afterNestedAlwaysContinues(frame, tok) == "loop"

\* if (indent && this.token.type !== TOKEN_TYPES.indent) break;
afterNested(frame, tok) ==
    IF frame.indent # 0 /\ tok.type # T_indent THEN "break" ELSE "loop"

\* an assignment that writes the keys into the mapping that was returned
AssignNestedIntoReturned ==
    /\ status = "running" /\ stack # <<>> /\ Top.pc = "assign"
    /\ heap' = [heap EXCEPT ![retval] = AssignKeys(@, Top.keys, VRef(retval))]
    /\ stack' = SetTop([Top EXCEPT !.pc = afterNested(Top, token)])
    /\ UNCHANGED <<input, doc, sc, token, retval, status, spin>>

\* const val = this.parse(indent + 1); for (const key of keys) obj[key] = val;
AssignNested ==
    /\ status = "running" /\ stack # <<>> /\ Top.pc = "assign"
    /\ heap' = [heap EXCEPT ![Top.obj] = AssignKeys(@, Top.keys, VRef(retval))]
    /\ stack' = SetTop([Top EXCEPT !.pc = afterNested(Top, token)])
    /\ UNCHANGED <<input, doc, sc, token, retval, status, spin>>

\* one more iteration of while (input[chop] !== "\n") or for (let i = 0; ; i++)
\* with the index past the end of the text: input[i] is undefined, which is
\* neither "\n" nor a quote
ScannerLoop ==
    /\ sc.pc = "loop"
    /\ status \in {"running", "scanning"}
    /\ spin' = (spin + 1) % SpinWindow
    /\ UNCHANGED <<input, doc, sc, token, stack, heap, retval, status>>

\* a consumer that pulls the generator to exhaustion
DrainPull ==
    /\ status = "scanning" /\ sc.pc # "loop"
    /\ \E item \in {Pull(sc)} :
       /\ sc' = item.sc
       /\ token' = IF item.kind = "token" THEN item.tok ELSE token
       /\ status' = CASE item.kind \in {"token", "loop"} -> status
                      [] item.kind = "done" -> "drained"
                      [] OTHER -> item.kind
    /\ UNCHANGED <<input, doc, stack, heap, retval, spin>>

(***************************************************************************)
(* The texts parse(str) is run on.  A written text is a list of lines,     *)
(* each a number of leading spaces and a form; line i uses the key         *)
(* KeyLetters[i], so that the keys of different lines differ.              *)
(***************************************************************************)
KeyLetters == <<"a", "b", "c", "d", "e", "g">>

KeyOf(i) == <<KeyLetters[i]>>

\* the second key of an alias list
AliasOf(i) == <<"x", KeyLetters[i]>>

PragmaText(n) == <<"#", " ">> \o VersionPrefix \o <<n>>

Content(form, i) ==
    CASE form = "leaf" -> KeyOf(i) \o <<" ", "1">>
      [] form = "header" -> KeyOf(i) \o <<":">>
      [] form = "aliasHeader" -> KeyOf(i) \o <<",", " ">> \o AliasOf(i) \o <<":">>
      [] form = "aliasLeaf" -> KeyOf(i) \o <<",", " ">> \o AliasOf(i) \o <<" ", "t", "r", "u", "e">>
      [] form = "quotedLeaf" -> <<QUOTE>> \o KeyOf(i) \o <<QUOTE, " ", QUOTE, "v", QUOTE>>
      [] form = "blank" -> <<>>
      [] form = "comment" -> <<"#", "c">>
      [] form = "pragma1" -> PragmaText("1")
      [] form = "pragma2" -> PragmaText("2")
      [] form = "leafPragma2" -> KeyOf(i) \o <<" ", "1", " ">> \o PragmaText("2")
      [] form = "invalid" -> <<"@">>

Line(spaces, form) == [spaces |-> spaces, form |-> form]

Spaces(n) == [i \in 1..n |-> SPACE]

RECURSIVE RenderLines(_, _)
RenderLines(lines, i) ==
    IF i > Len(lines) THEN <<>>
    ELSE Spaces(lines[i].spaces) \o Content(lines[i].form, i)
         \o (IF i < Len(lines) THEN <<NL>> ELSE <<>>)
         \o RenderLines(lines, i + 1)

\* the text of a document: its lines joined by "\n", with or without a last "\n"
Render(d) == RenderLines(d.lines, 1) \o (IF d.nl THEN <<NL>> ELSE <<>>)

\* the lines of a lockfile: entries at depths 0 to 2, a blank line
TreeLines ==
    {Line(s, f) : s \in {0, 2, 4}, f \in {"leaf", "header"}}
    \cup {Line(0, "aliasHeader"), Line(2, "quotedLeaf"), Line(0, "blank")}

\* lines that are not entries, or not indented by a multiple of 2
OtherLines ==
    {Line(1, "leaf"), Line(3, "leaf"),
     Line(0, "comment"), Line(2, "comment"),
     Line(0, "pragma1"), Line(0, "pragma2"), Line(2, "pragma2"), Line(0, "leafPragma2"),
     Line(0, "invalid"), Line(2, "invalid"),
     Line(2, "aliasLeaf"), Line(2, "aliasHeader")}

\* longer documents: a dedent of two levels, a dedent from depth 3 to depth 1,
\* a comment in the first column inside a block, the layout of a lockfile,
\* lines after an indented line that follows a depth-0 leaf
ExtraDocs ==
    {<<Line(0, "header"), Line(2, "header"), Line(4, "leaf"), Line(0, "leaf")>>,
     <<Line(0, "header"), Line(2, "header"), Line(4, "header"), Line(6, "leaf"),
       Line(2, "leaf")>>,
     <<Line(0, "header"), Line(2, "leaf"), Line(0, "comment"), Line(2, "leaf")>>,
     <<Line(0, "pragma1"), Line(0, "blank"), Line(0, "aliasHeader"), Line(2, "quotedLeaf"),
       Line(2, "header"), Line(4, "leaf")>>,
     <<Line(0, "header"), Line(2, "leaf"), Line(0, "invalid")>>,
     <<Line(0, "header"), Line(2, "leaf"), Line(0, "pragma2"), Line(0, "leaf")>>,
     <<Line(0, "leaf"), Line(2, "leaf"), Line(1, "leaf")>>,
     <<Line(0, "leaf"), Line(2, "leaf"), Line(0, "pragma2")>>}

SeqsFromTo(S, m, n) == UNION {[1..k -> S] : k \in m..n}

Doc(lines, nl) == [kind |-> "doc", lines |-> lines, nl |-> nl]

\* the written texts, by family: entries only, any lines, the longer documents
DocLines(family) ==
    CASE family = "tree" -> SeqsFromTo(TreeLines, 1, MaxTreeLines)
      [] family = "mixed" -> SeqsFromTo(TreeLines \cup OtherLines, 1, MaxMixedLines)
      [] family = "long" -> ExtraDocs

RawDoc == [kind |-> "raw", lines |-> <<>>, nl |-> FALSE]

RawAlphabet == {NL, "#", SPACE, QUOTE, BSL, "1", ":", ",", "a", "@"}

RawTexts == SeqsFromTo(RawAlphabet, 0, MaxRawLen)

\* a quoted literal and what follows it
QuoteTexts ==
    {<<QUOTE>> \o body : body \in SeqsFromTo({"a", BSL, QUOTE, "/"}, 0, MaxQuoteBody)}

\* texts made of the words `true` and `false` and of what may be around them
BoolPieces ==
    {<<"t", "r", "u", "e">>, <<"f", "a", "l", "s", "e">>, <<"x">>, <<":">>, <<SPACE>>, <<NL>>}

RECURSIVE Flatten(_)
Flatten(pieces) ==
    IF Len(pieces) = 0 THEN <<>> ELSE pieces[1] \o Flatten(SubSeq(pieces, 2, Len(pieces)))

BoolTexts == {Flatten(ps) : ps \in SeqsFromTo(BoolPieces, 1, MaxBoolPieces)}

Families == {"tree", "mixed", "long", "raw", "quote", "bool"}

InputsOf(family) ==
    CASE family = "raw" -> {[doc |-> RawDoc, text |-> t] : t \in RawTexts}
      [] family = "quote" -> {[doc |-> RawDoc, text |-> t] : t \in QuoteTexts}
      [] family = "bool" -> {[doc |-> RawDoc, text |-> t] : t \in BoolTexts}
      [] OTHER -> {[doc |-> Doc(l, e), text |-> Render(Doc(l, e))] :
                      l \in DocLines(family), e \in BOOLEAN}

\* new Parser(str, fileLoc)
InitWith(in, st) ==
    /\ input = in.text
    /\ doc = in.doc
    /\ sc = NewScanner(in.text)
    /\ token = NoToken
    /\ stack = <<>>
    /\ heap = <<>>
    /\ retval = 0
    /\ status = st
    /\ spin = 0

Init == \E family \in Families : \E in \in InputsOf(family) : InitWith(in, "ready")

Next ==
    \/ Start
    \/ LoopNewline
    \/ NlIndent
    \/ LoopIndent
    \/ LoopEof
    \/ LoopString
    \/ LoopOther
    \/ KeysComma
    \/ AliasKey
    \/ ValColon
    \/ ValLeaf
    \/ ValInvalid
    \/ Return
    \/ AssignNested
    \/ ScannerLoop

Spec == Init /\ [][Next]_vars

\* parse(str) is synchronous: it runs until it returns or throws
FairSpec == Spec /\ WF_vars(Next)

\* the Scanner alone, pulled to exhaustion
ScanInit == \E family \in Families : \E in \in InputsOf(family) : InitWith(in, "scanning")

ScanNext == DrainPull \/ ScannerLoop

ScanSpec == ScanInit /\ [][ScanNext]_vars

(***************************************************************************)
(* How parse(str) ends.                                                    *)
(***************************************************************************)
Errors ==
    {"InvalidIndentation", "UnsupportedLockfileVersion", "UnexpectedToken",
     "NoMoreTokens", "InvariantViolation"}

\* parse(str) has returned a mapping or thrown
Ended == status = "returned" \/ status \in Errors

\* the mapping parse(str) returned
Result == heap[retval]

(***************************************************************************)
(* C1.  For every finite text, with or without a last newline and with or  *)
(* without a closing quote for every opening one, parse(text) terminates:  *)
(* it eventually returns a mapping or fails with an error.                 *)
(***************************************************************************)
C1_ParseTerminates == <>Ended

(***************************************************************************)
(* C2.  Whenever parse(text) returns a mapping, the Tree Builder has       *)
(* consumed the whole token sequence: the current token is EndOfInput.  A  *)
(* text with a line whose indentation matches no open block is never       *)
(* accepted with its remaining lines dropped.                              *)
(***************************************************************************)
C2_ReturnsAtEndOfInput == status = "returned" => token.type = T_eof

(***************************************************************************)
(* The work parse(str) has left, as a number that every step lowers: the   *)
(* characters the generator has not consumed and the place it is suspended *)
(* at, then the places of the active parse(indent) calls.  A run whose     *)
(* every step lowers it is finite.                                         *)
(***************************************************************************)
ScanRank(g) ==
    3 * (Len(g.rest) - g.chop)
    + (CASE g.pc = "head" -> 3
         [] g.pc = "yield" -> (IF g.chop > 0 THEN 2 ELSE 1)
         [] g.pc = "eof" -> 1
         [] OTHER -> 0)

FrameRank(frame) ==
    CASE frame.pc = "break" -> 1
      [] frame.pc \in {"assign", "call"} -> 3
      [] OTHER -> 2

RECURSIVE StackRank(_)
StackRank(st) ==
    IF st = <<>> THEN 0 ELSE FrameRank(Head(st)) + StackRank(Tail(st))

Rank == (3 * Len(input) + 4) * ScanRank(sc) + StackRank(stack)

\* some step of parse(str) can be taken
CanStep ==
    \/ status = "ready"
    \/ status = "running" /\ sc.pc = "loop"
    \/ Running /\ Top.pc \in {"loop", "nlIndent", "keys", "aliasKey", "break", "assign"}

(***************************************************************************)
(* Well-formed documents: every line is an entry or a blank line, an entry *)
(* is indented by 2 spaces per depth level, the first entry is at depth 0, *)
(* an entry is at most one level deeper than the entry before it and       *)
(* deeper only when that entry opens a block (ends with a colon), and a    *)
(* blank line is followed by an entry at depth 0 or by nothing.            *)
(***************************************************************************)
EntryForms == {"leaf", "header", "aliasHeader", "aliasLeaf", "quotedLeaf"}

HeaderForms == {"header", "aliasHeader"}

AliasForms == {"aliasHeader", "aliasLeaf"}

LineKeys(lines, i) ==
    {KeyOf(i)} \cup (IF lines[i].form \in AliasForms THEN {AliasOf(i)} ELSE {})

\* the deepest level line i may be at
MaxDepthAt(lines, i) ==
    IF i = 1 \/ lines[i - 1].form = "blank" THEN 0
    ELSE lines[i - 1].spaces \div 2 + (IF lines[i - 1].form \in HeaderForms THEN 1 ELSE 0)

WellFormed(d) ==
    /\ d.kind = "doc"
    /\ \A i \in 1..Len(d.lines) :
          \/ d.lines[i].form = "blank" /\ d.lines[i].spaces = 0
          \/ /\ d.lines[i].form \in EntryForms
             /\ d.lines[i].spaces % 2 = 0
             /\ d.lines[i].spaces \div 2 <= MaxDepthAt(d.lines, i)

\* the specifier strings written as keys at depth 0
TopKeys(d) ==
    UNION {LineKeys(d.lines, i) :
              i \in {j \in 1..Len(d.lines) :
                        d.lines[j].form \in EntryForms /\ d.lines[j].spaces = 0}}

(***************************************************************************)
(* C3.  For every text that consists only of well-formed blocks with 2     *)
(* spaces of indentation per depth level, parse succeeds: it never fails,  *)
(* the Scanner never loops, every step lowers the work left and some step  *)
(* can be taken until parse returns; and the keys of the returned mapping  *)
(* are exactly the keys written at depth 0.                                *)
(***************************************************************************)
C3_Succeeds ==
    /\ status \in {"ready", "running", "returned"}
    /\ sc.pc # "loop"
    /\ Ended \/ CanStep
    /\ status = "returned" => token.type = T_eof /\ DOMAIN Result = TopKeys(doc)

C3_WellFormedTopLevelKeys ==
    /\ [](WellFormed(doc) => C3_Succeeds)
    /\ [][WellFormed(doc) => Rank' < Rank]_vars

\* a well-formed document with nested keys has been parsed
C3_Witness ==
    /\ WellFormed(doc)
    /\ status = "returned"
    /\ Len(heap) >= 3
    /\ Cardinality(TopKeys(doc)) >= 2

\* some line of the text starts, right after a newline, with an odd number of
\* spaces
OddIndentation(text) ==
    \E i \in 0..(Len(text) - 1) :
        At(text, i) = NL /\ RunLength(Slice(text, i + 1), {SPACE}) % 2 = 1

(***************************************************************************)
(* C4.  For a text in which some line starts, right after a newline, with  *)
(* an odd number of spaces, parse fails with InvalidIndentation.  Stated   *)
(* is the first thing this asks for: parse never returns a mapping for     *)
(* such a text.                                                            *)
(***************************************************************************)
C4_OddIndentationNeverReturns ==
    OddIndentation(input) => status # "returned"

\* some line of the document is, or ends with, the comment
\* `# yarn lockfile v2`
HasNewerVersionComment(d) ==
    d.kind = "doc" /\ \E i \in 1..Len(d.lines) : d.lines[i].form \in {"pragma2", "leafPragma2"}

(***************************************************************************)
(* C5.  For a text that contains a comment `yarn lockfile v<N>` with N     *)
(* greater than 1, wherever the comment is (the last line included), parse *)
(* fails with UnsupportedLockfileVersion.  Stated is what this excludes    *)
(* first: parse never returns a mapping for such a text, and the Scanner   *)
(* never loops on it.                                                      *)
(***************************************************************************)
C5_NewerVersionRejected ==
    HasNewerVersionComment(doc) => status # "returned" /\ sc.pc # "loop"

(***************************************************************************)
(* C6.  Alias sharing, at every depth.  When the nested block of a key     *)
(* list has been parsed, every key of the list holds a reference to the    *)
(* one mapping object that the nested parse returned, and no object is     *)
(* made or changed for it; when the key list is followed by a leaf value,  *)
(* every key of the list holds that value.  A key list has at least one    *)
(* key.                                                                    *)
(***************************************************************************)
KeySet(frame) == {frame.keys[i] : i \in 1..Len(frame.keys)}

C6_SharedBlock ==
    /\ Top.keys # <<>>
    /\ Len(heap') = Len(heap)
    /\ heap'[retval] = heap[retval]
    /\ \A k \in KeySet(Top) :
          k \in DOMAIN heap'[Top.obj] /\ heap'[Top.obj][k] = VRef(retval)

C6_SharedLeaf ==
    /\ Top.keys # <<>>
    /\ \A k \in KeySet(Top) :
          k \in DOMAIN heap'[Top.obj] /\ heap'[Top.obj][k] = token.value

C6_AliasSharing ==
    [][/\ (Running /\ Top.pc = "assign") => C6_SharedBlock
       /\ (Running /\ Top.pc = "keys" /\ isValidPropValueToken(token)) => C6_SharedLeaf]_vars

\* `a, xa:` at depth 0 and `b, xb true` in its block have been parsed
C6_Witness ==
    /\ status = "returned"
    /\ \E k1, k2 \in DOMAIN Result :
          k1 # k2 /\ Result[k1].t = "ref" /\ Result[k1] = Result[k2]
    /\ \E o \in 1..Len(heap) : \E k1, k2 \in DOMAIN heap[o] :
          o # retval /\ k1 # k2 /\ heap[o][k1].t = "bool" /\ heap[o][k1] = heap[o][k2]

\* the number of consecutive backslashes that end right before index i
RECURSIVE BackslashesBefore(_, _)
BackslashesBefore(s, i) ==
    IF i >= 1 /\ At(s, i - 1) = BSL THEN 1 + BackslashesBefore(s, i - 1) ELSE 0

\* the index of the first double quote after the opening one that is not
\* preceded by an odd number of backslashes, -1 when there is none
FirstUnescapedQuote(s) ==
    LET closing == {i \in 1..(Len(s) - 1) :
                      At(s, i) = QUOTE /\ BackslashesBefore(s, i) % 2 = 0}
    IN  IF closing = {} THEN -1
        ELSE CHOOSE i \in closing : \A j \in closing : i <= j

\* the escape decoding of s[from..to - 1] (0-based), the text between the quotes:
\* a backslash and the character after it stand for one character
RECURSIVE Decoded(_, _, _)
Decoded(s, from, to) ==
    IF from >= to THEN <<>>
    ELSE IF At(s, from) = BSL /\ from + 1 < to
         THEN <<Unescape(At(s, from + 1))>> \o Decoded(s, from + 2, to)
         ELSE <<At(s, from)>> \o Decoded(s, from + 1, to)

(***************************************************************************)
(* C7.  When the Scanner has produced the token of a quoted literal that   *)
(* has a closing quote, the literal ends at the first double quote after   *)
(* the opening one that is not escaped, a quote being escaped exactly when *)
(* an odd number of consecutive backslashes precedes it; and a String      *)
(* token's value is the escape decoding of the literal.                    *)
(***************************************************************************)
C7_QuotedLiteralEnd ==
    (sc.pc = "yield" /\ At(sc.rest, 0) = QUOTE /\ FirstUnescapedQuote(sc.rest) > 0) =>
        /\ sc.chop = FirstUnescapedQuote(sc.rest) + 1
        /\ token.type = T_string => token.value = VStr(Decoded(sc.rest, 1, sc.chop - 1))

\* no key of any mapping holds the value of an Invalid token
NoInvalidStored ==
    \A o \in 1..Len(heap) : \A k \in DOMAIN heap[o] : heap[o][k] # VUndef

(***************************************************************************)
(* C8.  Once an Invalid token is the Tree Builder's current token, at any  *)
(* depth and grammar position, parse fails with UnexpectedToken: the token *)
(* stays the current token and no other token is pulled (it is not         *)
(* skipped), it is stored under no key, parse does not return and fails    *)
(* with nothing else, and until the failure a step can be taken and every  *)
(* step lowers the work left.                                              *)
(***************************************************************************)
C8_InvalidPending ==
    /\ status \in {"running", "UnexpectedToken"}
    /\ sc.pc = "yield"
    /\ NoInvalidStored
    /\ status = "running" => CanStep

C8_InvalidStep ==
    /\ token' = token
    /\ sc' = sc
    /\ status' = "running" => Rank' < Rank

C8_InvalidTokenFails ==
    /\ [](token.type = T_invalid => C8_InvalidPending)
    /\ [][token.type = T_invalid => C8_InvalidStep]_vars

\* parse has failed on an Invalid token met after a nested block was closed
C8_Witness ==
    /\ token.type = T_invalid
    /\ status = "UnexpectedToken"
    /\ Len(stack) = 1
    /\ Len(heap) >= 2

(***************************************************************************)
(* C9.  The Scanner pulled to exhaustion produces a finite token sequence  *)
(* that ends in one EndOfInput token, because every scanner step strictly  *)
(* shortens the unconsumed text.  Stated is the step: whenever the Scanner *)
(* is suspended at a token it has produced, in a branch or in the          *)
(* zero-progress guard, the step consumes at least one character.          *)
(***************************************************************************)
C9_EveryStepConsumes ==
    sc.pc \in {"yield", "guard"} => sc.chop > 0

(***************************************************************************)
(* C10.  The Tree Builder never asks for a token after EndOfInput has      *)
(* become its current token: while the current token is EndOfInput no step *)
(* pulls the Scanner or replaces the token, and parse never fails with     *)
(* "No more tokens".                                                       *)
(***************************************************************************)
C10_NoPullAfterEof ==
    /\ [](status # "NoMoreTokens")
    /\ [][token.type = T_eof => sc' = sc /\ token' = token]_vars

\* EndOfInput is the current token inside a nested parse(indent) call
C10_Witness ==
    /\ token.type = T_eof
    /\ sc.pc = "eof"
    /\ status = "running"
    /\ Len(stack) >= 2

\* the offset in the text of the first character of the token the Scanner is
\* suspended at
TokenStart == Len(input) - Len(sc.rest)

\* the number of newline characters among the first n characters of s
RECURSIVE NewlinesIn(_, _)
NewlinesIn(s, n) ==
    IF n <= 0 THEN 0
    ELSE (IF At(s, n - 1) = NL THEN 1 ELSE 0) + NewlinesIn(s, n - 1)

\* the number of characters between the last newline before offset n and n
RECURSIVE ColumnOf(_, _)
ColumnOf(s, n) ==
    IF n <= 0 \/ At(s, n - 1) = NL THEN 0 ELSE 1 + ColumnOf(s, n - 1)

(***************************************************************************)
(* C11.  Every token the Scanner produces carries the position at which    *)
(* it starts: its line is 1 plus the number of newline characters before   *)
(* its first character, its column the number of characters on that line   *)
(* before its first character, for Newline tokens and on every line.       *)
(***************************************************************************)
C11_TokenPosition ==
    (status = "scanning" /\ sc.pc \in {"yield", "guard", "eof"}) =>
        /\ token.line = 1 + NewlinesIn(input, TokenStart)
        /\ token.col = ColumnOf(input, TokenStart)

\* the entries of a well-formed document
EntryLines(lines) == {i \in 1..Len(lines) : lines[i].form \in EntryForms}

\* the line that opens the block entry i is written in: the nearest line
\* above it that is less indented (0 for an entry at depth 0)
ParentLine(lines, i) ==
    LET above == {j \in 1..(i - 1) :
                    lines[j].form \in EntryForms /\ lines[j].spaces < lines[i].spaces}
    IN  IF above = {} THEN 0 ELSE CHOOSE j \in above : \A k \in above : k <= j

\* the keys written in the block opened by line p (p = 0: at depth 0)
BlockKeys(lines, p) ==
    UNION {LineKeys(lines, i) : i \in {j \in EntryLines(lines) : ParentLine(lines, j) = p}}

\* the mapping object of the block opened by line p, found from the result
RECURSIVE BlockObject(_, _)
BlockObject(lines, p) ==
    IF p = 0 THEN retval
    ELSE LET outer == heap[BlockObject(lines, ParentLine(lines, p))]
         IN  IF KeyOf(p) \in DOMAIN outer /\ outer[KeyOf(p)].t = "ref"
             THEN outer[KeyOf(p)].a
             ELSE retval

(***************************************************************************)
(* C12.  Block closing places entries in the right ancestor.  When parse   *)
(* has returned for a well-formed document, the mapping of every block     *)
(* (the top level and the block of every line that ends with a colon)      *)
(* holds exactly the keys of the entries written one level below the line  *)
(* that opens it: an entry after a dedent of one or more levels to depth k *)
(* is in the enclosing block at depth k, an entry at the same depth is a   *)
(* sibling.                                                                *)
(***************************************************************************)
C12_EntriesInEnclosingBlock ==
    (WellFormed(doc) /\ status = "returned") =>
        \A p \in {0} \cup {i \in EntryLines(doc.lines) : doc.lines[i].form \in HeaderForms} :
            /\ p # 0 => BlockObject(doc.lines, p) # retval
            /\ DOMAIN heap[BlockObject(doc.lines, p)] = BlockKeys(doc.lines, p)

\* a parsed document in which a line at depth k >= 1 follows a line that is
\* two or more levels deeper
C12_Witness ==
    /\ WellFormed(doc)
    /\ status = "returned"
    /\ \E i \in 2..Len(doc.lines) :
          /\ doc.lines[i].spaces >= 2
          /\ doc.lines[i - 1].spaces >= doc.lines[i].spaces + 4

\* the lines of a document without its comment lines
StripComments(lines) == SelectSeq(lines, LAMBDA l : l.form # "comment")

\* a well-formed document into which lines that are only a comment, with the
\* `#` in the first column and a newline after it, were put between two lines
CommentsInserted(d) ==
    /\ d.kind = "doc"
    /\ \E i \in 1..Len(d.lines) : d.lines[i].form = "comment"
    /\ \A i \in 1..Len(d.lines) :
          d.lines[i].form = "comment" => d.lines[i].spaces = 0 /\ 1 < i /\ i < Len(d.lines)
    /\ WellFormed(Doc(StripComments(d.lines), d.nl))

(***************************************************************************)
(* C13.  Comments are transparent to the result.  The Tree Builder's       *)
(* current token is never a Comment; and for a text that parse accepts,    *)
(* with comment lines inserted between its lines (inside nested blocks     *)
(* too), parse does not fail and returns the same mapping: every block     *)
(* holds exactly the keys of the entries written in it.                    *)
(***************************************************************************)
C13_CommentsTransparent ==
    /\ token.type # T_comment
    /\ CommentsInserted(doc) =>
          /\ status \notin Errors
          /\ status = "returned" =>
                \A p \in {0} \cup {i \in EntryLines(doc.lines) :
                                       doc.lines[i].form \in HeaderForms} :
                    DOMAIN heap[BlockObject(doc.lines, p)] = BlockKeys(doc.lines, p)

\* the mapping object that holds a reference to the mapping object o
ParentObject(o) ==
    CHOOSE p \in 1..Len(heap) : \E k \in DOMAIN heap[p] : heap[p][k] = VRef(o)

\* the depth of the block whose mapping object is o, in the returned result
RECURSIVE DepthOf(_)
DepthOf(o) == IF o = retval THEN 0 ELSE 1 + DepthOf(ParentObject(o))

\* some line of the text begins, after a newline, with exactly 2 * d spaces
\* and has a token after them
LineWithIndent(text, d) ==
    \E i \in 0..(Len(text) - 1) :
        /\ At(text, i) = NL
        /\ RunLength(Slice(text, i + 1), {SPACE}) = 2 * d
        /\ At(text, i + 1 + 2 * d) \notin {UNDEF, NL}

(***************************************************************************)
(* C14.  Indentation is the only nesting signal: in a successful parse     *)
(* each key stored in a mapping at depth d >= 1 is the first token of a    *)
(* line that begins with an Indent token of value d, and a key that        *)
(* follows a colon on the same line is never accepted.  Stated is what     *)
(* follows for the text: when parse has returned and a mapping at depth    *)
(* d >= 1 holds a key, the text has a line that begins with exactly 2 * d  *)
(* spaces.                                                                 *)
(***************************************************************************)
C14_NestedKeysOnIndentedLines ==
    status = "returned" =>
        \A o \in 1..Len(heap) :
            (o # retval /\ DOMAIN heap[o] # {}) => LineWithIndent(input, DepthOf(o))

(***************************************************************************)
(* C15.  In the token sequence of the Scanner every Indent token comes     *)
(* right after a Newline token and its value is an integer >= 1, half the  *)
(* length of the whole run of spaces after that newline; a space that is   *)
(* not right after a newline (in a line, or at the start of the text) is   *)
(* consumed alone and gives no token.  For each step that produces a       *)
(* token: what was consumed since the end of the token before is spaces    *)
(* that do not follow a newline, and the token starts with a space exactly *)
(* when it is an Indent.                                                   *)
(***************************************************************************)
C15_Produced ==
    LET start == Len(input) - Len(sc'.rest)
        prevEnd == Len(input) - Len(sc.rest) + sc.chop
        run == RunLength(sc'.rest, {SPACE})
    IN  /\ \A i \in prevEnd..(start - 1) : At(input, i) = SPACE
        /\ start > prevEnd => token.type # T_newline
        /\ token'.type = T_indent <=> At(sc'.rest, 0) = SPACE
        /\ token'.type = T_indent =>
              /\ token.type = T_newline
              /\ At(input, start - 1) = NL
              /\ run % 2 = 0
              /\ token'.value = VNum(run \div 2)
              /\ token'.value.n >= 1
              /\ sc'.chop = run

C15_IndentAfterNewline ==
    [][(status = "scanning" /\ sc' # sc /\ sc'.pc = "yield") => C15_Produced]_vars

\* the Scanner has produced Indent(2) for a line of a text that has a space
\* inside a line before it
C15_Witness ==
    /\ status = "scanning"
    /\ sc.pc = "yield"
    /\ token.type = T_indent /\ token.value = VNum(2)
    /\ \E i \in 1..(TokenStart - 1) : At(input, i) = SPACE /\ At(input, i - 1) \notin {SPACE, NL}

\* the mapping objects of the parse(indent) calls that have not returned
OpenObjects == {stack[i].obj : i \in 1..Len(stack)}

(***************************************************************************)
(* C16.  Once a parse(depth) call has returned the mapping of a block, no  *)
(* step changes that mapping: a step only adds keys to (or replaces the    *)
(* value of a key of) the mapping of a call that has not returned, and     *)
(* assigning the returned mapping under the keys of its parent leaves its  *)
(* own contents as they are.  No mapping loses a key.                      *)
(***************************************************************************)
C16_ClosedBlocksFrozen ==
    [][\A o \in 1..Len(heap) :
          /\ o <= Len(heap')
          /\ DOMAIN heap[o] \subseteq DOMAIN heap'[o]
          /\ o \notin OpenObjects => heap'[o] = heap[o]]_vars

\* a nested block with a key was closed and assigned, and the parse goes on
C16_Witness ==
    /\ status = "running"
    /\ \E o \in 1..Len(heap) : \E p \in OpenObjects : \E k \in DOMAIN heap[p] :
          /\ o \notin OpenObjects
          /\ DOMAIN heap[o] # {}
          /\ heap[p][k] = VRef(o)
          /\ \E k2 \in DOMAIN heap[p] : heap[p][k2].t = "num"

\* the text s begins with the letters of p
BeginsWith(s, p) == \A i \in 1..Len(p) : At(s, i - 1) = p[i]

TrueWord == <<"t", "r", "u", "e">>

FalseWord == <<"f", "a", "l", "s", "e">>

(***************************************************************************)
(* C17.  Boolean literals are matched without a word-boundary check.       *)
(* Whenever the Scanner is suspended at a token whose text begins with     *)
(* `true` (`false`), the token is a Boolean with value true (false) that   *)
(* consumes 4 (5) characters, whatever follows, and no other text gives a  *)
(* Boolean; the next token starts right after these characters when no     *)
(* space follows them, so `truex` gives Boolean(true) and the String `x`.  *)
(***************************************************************************)
C17_BooleanToken ==
    (status = "scanning" /\ sc.pc = "yield") =>
        /\ BeginsWith(sc.rest, TrueWord) =>
              token.type = T_boolean /\ token.value = VBool(TRUE) /\ sc.chop = 4
        /\ BeginsWith(sc.rest, FalseWord) =>
              token.type = T_boolean /\ token.value = VBool(FALSE) /\ sc.chop = 5
        /\ token.type = T_boolean =>
              BeginsWith(sc.rest, TrueWord) \/ BeginsWith(sc.rest, FalseWord)

C17_AfterBoolean ==
    (/\ status = "scanning" /\ sc.pc = "yield" /\ token.type = T_boolean
     /\ At(sc.rest, sc.chop) # SPACE
     /\ sc'.pc \in {"yield", "eof"})
    => /\ sc'.rest = Slice(sc.rest, sc.chop)
       /\ At(sc.rest, sc.chop) \in LowerCase => token'.type \in {T_string, T_boolean}

C17_BooleanWithoutWordBoundary ==
    /\ []C17_BooleanToken
    /\ [][C17_AfterBoolean]_vars

\* `truex`: after Boolean(true) the Scanner has produced the String `x`
C17_Witness ==
    /\ status = "scanning"
    /\ input = TrueWord \o <<"x">>
    /\ sc.pc = "yield"
    /\ TokenStart = 4
    /\ token.type = T_string /\ token.value = VStr(<<"x">>)

=============================================================================
